---- MODULE Spec2Model ----
(***************************************************************************)
(* The frame-cache scheduler of the renderer node (RendererProcessor):     *)
(* the invalidation queue, the dispatch of primary renders to the master   *)
(* worker, the completion callback, start/stop and parameter changes, the  *)
(* cache identity and the read path.                                       *)
(***************************************************************************)
EXTENDS Integers, Sequences, FiniteSets, TLC

(***************************************************************************)
(* Rational time.  A timestamp is a pair <<numerator, denominator>> kept   *)
(* in lowest terms with a positive denominator; the null rational is 0/0.  *)
(***************************************************************************)
RECURSIVE GCD(_, _)
GCD(a, b) == IF b = 0 THEN a ELSE GCD(b, a % b)

Abs(n) == IF n < 0 THEN -n ELSE n

rational(n, d) ==
    IF d = 0 THEN <<0, 0>>
    ELSE LET g == GCD(Abs(n), Abs(d))
             s == IF d < 0 THEN -1 ELSE 1
         IN  <<s * (n \div g), s * (d \div g)>>

numerator(r) == r[1]

denominator(r) == r[2]

isNull(r) == r[2] = 0

RLeq(a, b) == a[1] * b[2] <= b[1] * a[2]

RLess(a, b) == a[1] * b[2] < b[1] * a[2]

RAdd(a, b) == rational(a[1] * b[2] + b[1] * a[2], a[2] * b[2])

(***************************************************************************)
(* IEEE-754 binary64 arithmetic on the non-negative values the snapping    *)
(* code computes.  A double is [m, e] with value m * 2^e, where m is a     *)
(* natural number of at most 53 significant bits held as a little-endian   *)
(* sequence of limbs (base 2^LimbBits); zero has the empty significand.    *)
(* Every operation rounds to nearest, ties to even, as the hardware does.  *)
(* The small operands (numerators and denominators) stay below 2^16.       *)
(***************************************************************************)
MantBits == 53

LimbBits == 13

RECURSIVE Pow2(_)
Pow2(n) == IF n = 0 THEN 1 ELSE 2 * Pow2(n - 1)

Base == Pow2(LimbBits)

RECURSIVE BitLen(_)
BitLen(n) == IF n = 0 THEN 0 ELSE 1 + BitLen(n \div 2)

RECURSIVE BTrim(_)
BTrim(a) ==
    IF a = <<>> \/ a[Len(a)] # 0 THEN a ELSE BTrim(SubSeq(a, 1, Len(a) - 1))

RECURSIVE BOfInt(_)
BOfInt(n) == IF n = 0 THEN <<>> ELSE <<n % Base>> \o BOfInt(n \div Base)

RECURSIVE BToInt(_)
BToInt(a) == IF a = <<>> THEN 0 ELSE a[1] + Base * BToInt(Tail(a))

BBitLen(a) ==
    IF a = <<>> THEN 0 ELSE (Len(a) - 1) * LimbBits + BitLen(a[Len(a)])

BIsOdd(a) == a # <<>> /\ a[1] % 2 = 1

RECURSIVE BMulCarry(_, _, _)
BMulCarry(a, k, carry) ==
    IF a = <<>> THEN BOfInt(carry)
    ELSE LET t == a[1] * k + carry
         IN  <<t % Base>> \o BMulCarry(Tail(a), k, t \div Base)

BMulSmall(a, k) == BTrim(BMulCarry(a, k, 0))

\* Division by a small integer, most significant limb first: [q, r].
RECURSIVE BDivRem(_, _)
BDivRem(a, d) ==
    IF a = <<>> THEN [q |-> <<>>, r |-> 0]
    ELSE LET hi == BDivRem(Tail(a), d)
             t  == hi.r * Base + a[1]
         IN  [q |-> <<t \div d>> \o hi.q, r |-> t % d]

BDivSmall(a, d) ==
    LET res == BDivRem(a, d) IN [q |-> BTrim(res.q), r |-> res.r]

BShl(a, s) ==
    IF a = <<>> THEN <<>>
    ELSE BMulSmall([i \in 1..(s \div LimbBits) |-> 0] \o a, Pow2(s % LimbBits))

\* a \div 2^s, and whether a non-zero remainder was dropped.
BShr(a, s) ==
    LET w    == s \div LimbBits
        low  == SubSeq(a, 1, IF w < Len(a) THEN w ELSE Len(a))
        high == SubSeq(a, w + 1, Len(a))
        res  == BDivSmall(high, Pow2(s % LimbBits))
    IN  [q |-> res.q, lost |-> res.r # 0 \/ \E i \in 1..Len(low) : low[i] # 0]

BIncr(a) == BTrim(BMulCarry(a, 1, 1))

\* The exact value q * 2^e (plus a non-zero tail below q when sticky) rounded
\* to a 53-bit significand.
RoundNearestEven(q, e, sticky) ==
    LET len == BBitLen(q)
    IN  IF len <= MantBits THEN [m |-> q, e |-> e]
        ELSE LET sh    == len - MantBits
                 q1    == BShr(q, sh - 1)
                 guard == BIsOdd(q1.q)
                 keep  == BShr(q1.q, 1).q
                 up    == guard /\ (sticky \/ q1.lost \/ BIsOdd(keep))
             IN  [m |-> IF up THEN BIncr(keep) ELSE keep, e |-> e + sh]

DblZero == [m |-> <<>>, e |-> 0]

\* The exact value a * 2^e divided by the small integer d.
DivRound(a, e, d) ==
    LET want == MantBits + 2 + BitLen(d) - BBitLen(a)
        s    == IF want > 0 THEN want ELSE 0
        res  == BDivSmall(BShl(a, s), d)
    IN  RoundNearestEven(res.q, e - s, res.r # 0)

\* static_cast<double>(n) / static_cast<double>(d), n >= 0, d > 0
DblOfQuotient(n, d) == IF n = 0 THEN DblZero ELSE DivRound(BOfInt(n), 0, d)

\* x / static_cast<double>(d), d > 0
DblDiv(x, d) == IF x.m = <<>> THEN DblZero ELSE DivRound(x.m, x.e, d)

\* x * static_cast<double>(k), k > 0
DblMul(x, k) ==
    IF x.m = <<>> THEN DblZero ELSE RoundNearestEven(BMulSmall(x.m, k), x.e, FALSE)

\* qFloor of a non-negative double below 2^30
qFloor(x) ==
    IF x.m = <<>> THEN 0
    ELSE IF x.e >= 0 THEN BToInt(BShl(x.m, x.e))
    ELSE BToInt(BShr(x.m, -x.e).q)

toDouble(r) == DblOfQuotient(numerator(r), denominator(r))

\* The range start taken as it is, not snapped to the grid.
SnapStart_NoSnap(start_range, timebase) == start_range

\* Lines 128-131: the start of the range snapped down to the timebase grid.
SnapStart(start_range, timebase) ==
    LET start_range_dbl      == toDouble(start_range)
        start_range_numf     == DblMul(start_range_dbl, denominator(timebase))
        start_range_numround ==
            qFloor(DblDiv(start_range_numf, numerator(timebase))) * numerator(timebase)
    IN  rational(start_range_numround, denominator(timebase))

\* The loop without its contains() test.
RECURSIVE EnqueueRange_NoContains(_, _, _, _)
EnqueueRange_NoContains(queue, r, end_range, timebase) ==
    IF ~RLeq(r, end_range) THEN queue
    ELSE EnqueueRange_NoContains(Append(queue, r), RAdd(r, timebase), end_range, timebase)

\* Line 133: the grid points from r up to end_range that are not yet queued,
\* appended in ascending order.
RECURSIVE EnqueueRange(_, _, _, _)
EnqueueRange(queue, r, end_range, timebase) ==
    IF ~RLeq(r, end_range) THEN queue
    ELSE EnqueueRange(IF \E i \in 1..Len(queue) : queue[i] = r
                      THEN queue ELSE Append(queue, r),
                      RAdd(r, timebase), end_range, timebase)

(***************************************************************************)
(* QString::number and the cache identity.  A string is a sequence of      *)
(* one-character strings.  SHA-1 is taken to be injective on the inputs of *)
(* the model, so the identity is the byte string that is hashed.           *)
(***************************************************************************)
Digit(d) == <<"0", "1", "2", "3", "4", "5", "6", "7", "8", "9">>[d + 1]

RECURSIVE NatString(_)
NatString(n) ==
    IF n < 10 THEN <<Digit(n)>> ELSE NatString(n \div 10) \o <<Digit(n % 10)>>

QStringNumber(n) == IF n < 0 THEN <<"-">> \o NatString(-n) ELSE NatString(n)

Sha1Hex(bytes) == bytes

\* C++ integer division truncates toward zero.
TruncDiv(a, b) ==
    IF (a < 0) = (b < 0) THEN Abs(a) \div Abs(b) ELSE -(Abs(a) \div Abs(b))

(***************************************************************************)
(* Bounds of the model.                                                    *)
(***************************************************************************)
\* QThread::idealThreadCount(): the size of both worker pools
PoolSize == 2

\* the frames 0 .. MaxFrame of the 1/24 grid are invalidated and read
MaxFrame == 1

\* the furthest grid point of each timebase that a range starts or ends at
MaxSnap == 3

\* textures handed to download workers between two Starts
MaxDispatch == 3

\* cache files on disk or on their way to it
MaxFiles == 1

\* readings of the wall clock (QDateTime::currentMSecsSinceEpoch)
MaxClock == 1

NullRational == <<0, 0>>

\* The timestamps and timebases the handlers are called with.
Frames == {rational(k, 24) : k \in 0..MaxFrame}

Timebases == {rational(1, 24)}

SnapTimebases == {rational(1, 24), rational(1001, 24000)}

SnapTimes ==
    {rational(k * numerator(t), denominator(t)) : k \in {0, MaxSnap}, t \in SnapTimebases}
        \cup {rational(3, 100), rational(9, 100)}

\* SnapStart on every input of the model, computed once.
SnapStartTable ==
    {<<start_range, timebase, SnapStart(start_range, timebase)>> :
        start_range \in Frames \cup SnapTimes, timebase \in Timebases \cup SnapTimebases}

SnapStartOf(start_range, timebase) ==
    (CHOOSE row \in SnapStartTable : row[1] = start_range /\ row[2] = timebase)[3]

NullThread == -1

(***************************************************************************)
(* State.  The fields of RendererProcessor keep their names; the rest is   *)
(* the environment the scheduler runs in.                                  *)
(***************************************************************************)
VARIABLES
    started_, width_, height_, format_, mode_, divider_,
    effective_width_, effective_height_,
    caching_, cache_queue_, cache_frame_,
    cache_name_, cache_time_, cache_id_, timebase_,
    threads_,                 \* render workers: [id, queue], queue the frames to render
    download_threads_,        \* download workers: each a queue of destination paths
    master_thread_, last_download_thread_,
    master_texture_,          \* "null" or "texture"
    cache_frame_load_buffer_, \* "empty" or "sized"
    connected,                \* texture_input_->IsConnected()
    events,                   \* FinishedPath signals queued to the scheduler's thread
    files,                    \* cache files on disk: <<identity, timestamp>>
    crashed,                  \* the process has died (trap, null dereference) or hangs
    last_,                    \* the last handler that ran and what it reported
    rendered                  \* AudioRenderWorker::RenderBlock: its call and its result

vars == <<started_, width_, height_, format_, mode_, divider_,
          effective_width_, effective_height_, caching_, cache_queue_,
          cache_frame_, cache_name_, cache_time_, cache_id_, timebase_,
          threads_, download_threads_, master_thread_, last_download_thread_,
          master_texture_, cache_frame_load_buffer_, connected, events, files,
          crashed, last_, rendered>>

\* The state as one record, so that a handler is the composition of the
\* methods it calls.
State ==
    [started_ |-> started_, width_ |-> width_, height_ |-> height_,
     format_ |-> format_, mode_ |-> mode_, divider_ |-> divider_,
     effective_width_ |-> effective_width_,
     effective_height_ |-> effective_height_,
     caching_ |-> caching_, cache_queue_ |-> cache_queue_,
     cache_frame_ |-> cache_frame_, cache_name_ |-> cache_name_,
     cache_time_ |-> cache_time_, cache_id_ |-> cache_id_,
     timebase_ |-> timebase_, threads_ |-> threads_,
     download_threads_ |-> download_threads_,
     master_thread_ |-> master_thread_,
     last_download_thread_ |-> last_download_thread_,
     master_texture_ |-> master_texture_,
     cache_frame_load_buffer_ |-> cache_frame_load_buffer_,
     connected |-> connected, events |-> events, files |-> files,
     crashed |-> crashed]

\* what last_ holds after a handler that reports nothing
Other == <<"other">>

Commit(s, op) ==
    /\ started_' = s.started_
    /\ width_' = s.width_
    /\ height_' = s.height_
    /\ format_' = s.format_
    /\ mode_' = s.mode_
    /\ divider_' = s.divider_
    /\ effective_width_' = s.effective_width_
    /\ effective_height_' = s.effective_height_
    /\ caching_' = s.caching_
    /\ cache_queue_' = s.cache_queue_
    /\ cache_frame_' = s.cache_frame_
    /\ cache_name_' = s.cache_name_
    /\ cache_time_' = s.cache_time_
    /\ cache_id_' = s.cache_id_
    /\ timebase_' = s.timebase_
    /\ threads_' = s.threads_
    /\ download_threads_' = s.download_threads_
    /\ master_thread_' = s.master_thread_
    /\ last_download_thread_' = s.last_download_thread_
    /\ master_texture_' = s.master_texture_
    /\ cache_frame_load_buffer_' = s.cache_frame_load_buffer_
    /\ connected' = s.connected
    /\ events' = s.events
    /\ files' = s.files
    /\ crashed' = s.crashed
    /\ last_' = op
    /\ rendered' = rendered

(***************************************************************************)
(* The methods of RendererProcessor, as functions of the state.            *)
(***************************************************************************)
\* A thread is named by its index in the pool.  A signal of a destroyed
\* thread still carries the pointer that master_thread_ holds, since the
\* callback alone clears caching_ and CacheNext alone sets master_thread_.
DoStart(s) ==
    IF s.started_ THEN s
    ELSE [s EXCEPT
            !.threads_ = [i \in 1..PoolSize |-> [id |-> i - 1, queue |-> <<>>]],
            !.download_threads_ = [i \in 1..PoolSize |-> <<>>],
            !.last_download_thread_ = 0,
            !.master_texture_ = "texture",
            !.cache_frame_load_buffer_ = "sized",
            !.started_ = TRUE]

DoStop(s) ==
    IF ~s.started_ THEN s
    ELSE [s EXCEPT
            !.started_ = FALSE,
            !.download_threads_ = <<>>,
            !.threads_ = <<>>,
            !.master_texture_ = "null",
            !.cache_frame_load_buffer_ = "empty"]

\* CacheNext without the test of caching_.
CacheNext_NoCachingGuard(s) ==
    IF s.cache_queue_ = <<>> \/ ~s.connected THEN s
    ELSE LET s1 == DoStart(s)
         IN  [s1 EXCEPT
                !.cache_frame_ = Head(s.cache_queue_),
                !.cache_queue_ = Tail(s.cache_queue_),
                !.master_thread_ = s1.threads_[1].id,
                !.threads_[1].queue = Append(@, Head(s.cache_queue_)),
                !.caching_ = TRUE]

\* CacheNext with takeLast in place of takeFirst.
CacheNext_TakeLast(s) ==
    IF s.cache_queue_ = <<>> \/ ~s.connected \/ s.caching_ THEN s
    ELSE LET s1 == DoStart(s)
             n  == Len(s.cache_queue_)
         IN  [s1 EXCEPT
                !.cache_frame_ = s.cache_queue_[n],
                !.cache_queue_ = SubSeq(s.cache_queue_, 1, n - 1),
                !.master_thread_ = s1.threads_[1].id,
                !.threads_[1].queue = Append(@, s.cache_queue_[n]),
                !.caching_ = TRUE]

CacheNext(s) ==
    IF s.cache_queue_ = <<>> \/ ~s.connected \/ s.caching_ THEN s
    ELSE LET s1 == DoStart(s)
         IN  [s1 EXCEPT
                !.cache_frame_ = Head(s.cache_queue_),
                !.cache_queue_ = Tail(s.cache_queue_),
                !.master_thread_ = s1.threads_[1].id,
                !.threads_[1].queue = Append(@, Head(s.cache_queue_)),
                !.caching_ = TRUE]

GenerateCacheIDInternal(s) ==
    IF s.cache_name_ = <<>> \/ s.effective_width_ = 0 \/ s.effective_height_ = 0
    THEN s
    ELSE [s EXCEPT !.cache_id_ =
            Sha1Hex(s.cache_name_ \o QStringNumber(s.cache_time_)
                    \o QStringNumber(s.width_) \o QStringNumber(s.height_)
                    \o QStringNumber(s.format_) \o QStringNumber(s.divider_))]

\* An integer division by zero traps.
CalculateEffectiveDimensions(s) ==
    IF s.divider_ = 0 THEN [s EXCEPT !.crashed = TRUE]
    ELSE [s EXCEPT !.effective_width_ = TruncDiv(s.width_, s.divider_),
                   !.effective_height_ = TruncDiv(s.height_, s.divider_)]

CachePathName(s, time) == <<s.cache_id_, time>>

RECURSIVE QueuedDownloads(_)
QueuedDownloads(pool) ==
    IF pool = <<>> THEN 0 ELSE Len(Head(pool)) + QueuedDownloads(Tail(pool))

(***************************************************************************)
(* The handlers.                                                           *)
(***************************************************************************)
SetCacheName(name, now) ==
    /\ ~crashed
    /\ now >= cache_time_
    /\ Commit(GenerateCacheIDInternal(
                [State EXCEPT !.cache_name_ = name, !.cache_time_ = now]),
              Other)

SetTimebase(timebase) ==
    /\ ~crashed
    /\ Commit([State EXCEPT !.timebase_ = timebase], Other)

\* InvalidateCache that does not enqueue the frame that is being rendered.
InvalidateCache_SkipsInFlight(start_range, end_range) ==
    /\ ~crashed
    /\ ~isNull(timebase_)
    /\ LET true_start_range == SnapStartOf(start_range, timebase_)
           queued == EnqueueRange(cache_queue_, true_start_range, end_range, timebase_)
           kept == SelectSeq(queued, LAMBDA t : ~(caching_ /\ t = cache_frame_))
       IN  Commit(CacheNext([State EXCEPT !.cache_queue_ = kept]),
                  <<"InvalidateCache", start_range, end_range>>)

\* With a null timebase the snapped start is a product with numerator 0,
\* that is 0, and r += timebase_ leaves r where it is: the loop ends only if
\* 0 is beyond end_range, and otherwise never.
InvalidateCache(start_range, end_range) ==
    /\ ~crashed
    /\ IF isNull(timebase_)
       THEN IF RLeq(rational(0, 1), end_range)
            THEN Commit([State EXCEPT !.crashed = TRUE],
                        <<"InvalidateCache", start_range, end_range>>)
            ELSE Commit(CacheNext(State),
                        <<"InvalidateCache", start_range, end_range>>)
       ELSE LET true_start_range == SnapStartOf(start_range, timebase_)
                queued == EnqueueRange(cache_queue_, true_start_range,
                                       end_range, timebase_)
            IN  Commit(CacheNext([State EXCEPT !.cache_queue_ = queued]),
                       <<"InvalidateCache", start_range, end_range>>)

SetParameters(width, height, format, mode, divider) ==
    /\ ~crashed
    /\ LET s1 == [DoStop(State) EXCEPT
                    !.width_ = width, !.height_ = height,
                    !.format_ = format, !.mode_ = mode]
           s2 == IF divider > 0 THEN [s1 EXCEPT !.divider_ = divider] ELSE s1
           s3 == CalculateEffectiveDimensions(s2)
       IN  Commit(IF s3.crashed THEN s3 ELSE GenerateCacheIDInternal(s3),
                  Other)

SetDivider(divider) ==
    /\ ~crashed
    /\ LET s1 == [DoStop(State) EXCEPT !.divider_ = divider]
           s2 == CalculateEffectiveDimensions(s1)
       IN  Commit(IF s2.crashed THEN s2 ELSE GenerateCacheIDInternal(s2),
                  Other)

Start ==
    /\ ~crashed
    /\ Commit(DoStart(State), Other)

Stop ==
    /\ ~crashed
    /\ Commit(DoStop(State), Other)

\* A read path that queues the frame it misses.
Value_RendersOnMiss(output, time, opened) ==
    /\ ~crashed
    /\ Commit(CacheNext([State EXCEPT !.cache_queue_ = Append(@, time)]),
              <<"Value", "0">>)

\* opened: whether OIIO::ImageInput::open succeeds on an existing file
Value(output, time, opened) ==
    /\ ~crashed
    /\ LET fn  == CachePathName(State, time)
           hit == /\ output = "tex_out"
                  /\ connected
                  /\ cache_id_ # <<>>
                  /\ ~isNull(timebase_)
                  /\ fn \in files
                  /\ opened
           dead == hit /\ (master_texture_ = "null" \/ cache_frame_load_buffer_ = "empty")
       IN  Commit([State EXCEPT !.crashed = dead],
                  <<"Value", IF hit /\ ~dead THEN "master_texture" ELSE "0">>)

\* ThreadCallback that leaves the cache file of an empty result in place.
ThreadCallback_KeepsFile(texture) ==
    /\ ~crashed
    /\ events # <<>>
    /\ LET s0 == [State EXCEPT !.events = Tail(events)]
           fn == CachePathName(State, cache_frame_)
           s1 == [s0 EXCEPT !.caching_ = FALSE]
           s2 == IF ~texture
                 THEN s1
                 ELSE IF download_threads_ = <<>>
                 THEN [s1 EXCEPT !.crashed = TRUE]
                 ELSE [s1 EXCEPT
                         !.download_threads_[(last_download_thread_ % Len(download_threads_)) + 1] =
                             Append(@, fn),
                         !.last_download_thread_ = @ + 1]
       IN  /\ texture => /\ connected
                      /\ last_download_thread_ < MaxDispatch
                      /\ Cardinality(files) + QueuedDownloads(download_threads_) < MaxFiles
           /\ Commit(IF Head(events) # master_thread_ THEN s0
                     ELSE IF s2.crashed THEN s2
                     ELSE CacheNext(s2),
                     <<"ThreadCallback", texture>>)

\* ThreadCallback that hands every texture to the first download worker.
ThreadCallback_FirstWorker(texture) ==
    /\ ~crashed
    /\ events # <<>>
    /\ download_threads_ # <<>>
    /\ texture => /\ connected
                  /\ last_download_thread_ < MaxDispatch
                  /\ Cardinality(files) + QueuedDownloads(download_threads_) < MaxFiles
    /\ LET fn == CachePathName(State, cache_frame_)
           s1 == [State EXCEPT !.events = Tail(events), !.caching_ = FALSE]
       IN  Commit(CacheNext(IF texture
                            THEN [s1 EXCEPT !.download_threads_[1] = Append(@, fn),
                                            !.last_download_thread_ = @ + 1]
                            ELSE [s1 EXCEPT !.files = files \ {fn}]),
                  <<"ThreadCallback", texture>>)

\* texture: whether the graph has a texture at cache_frame_
ThreadCallback(texture) ==
    /\ ~crashed
    /\ events # <<>>
    /\ LET s0 == [State EXCEPT !.events = Tail(events)]
           fn == CachePathName(State, cache_frame_)
           s1 == [s0 EXCEPT !.caching_ = FALSE]
           s2 == IF ~texture
                 THEN [s1 EXCEPT !.files = files \ {fn}]
                 ELSE IF download_threads_ = <<>>
                 THEN [s1 EXCEPT !.crashed = TRUE]
                 ELSE [s1 EXCEPT
                         !.download_threads_[(last_download_thread_ % Len(download_threads_)) + 1] =
                             Append(@, fn),
                         !.last_download_thread_ = @ + 1]
       IN  /\ texture => /\ connected
                      /\ last_download_thread_ < MaxDispatch
                      /\ Cardinality(files) + QueuedDownloads(download_threads_) < MaxFiles
           /\ Commit(IF Head(events) # master_thread_ THEN s0
                     ELSE IF s2.crashed THEN s2
                     ELSE CacheNext(s2),
                     <<"ThreadCallback", texture>>)

(***************************************************************************)
(* The environment: the workers, the graph editor.                         *)
(***************************************************************************)
\* A render worker completes its primary item and signals FinishedPath
\* through the queued connection.
WorkerFinish(i) ==
    /\ ~crashed
    /\ i \in 1..Len(threads_)
    /\ threads_[i].queue # <<>>
    /\ Commit([State EXCEPT !.threads_[i].queue = Tail(@),
                            !.events = Append(events, threads_[i].id)],
              Other)

\* A download worker writes the texture at the head of its queue to disk.
DownloadFinish(i) ==
    /\ ~crashed
    /\ i \in 1..Len(download_threads_)
    /\ download_threads_[i] # <<>>
    /\ Commit([State EXCEPT !.download_threads_[i] = Tail(@),
                            !.files = files \cup {Head(download_threads_[i])}],
              Other)

ConnectInput ==
    /\ ~crashed
    /\ ~connected
    /\ Commit([State EXCEPT !.connected = TRUE], Other)

DisconnectInput ==
    /\ ~crashed
    /\ connected
    /\ Commit([State EXCEPT !.connected = FALSE], Other)

(***************************************************************************)
(* AudioRenderWorker::RenderBlock.  Times are counted in samples, a buffer *)
(* is a sequence of bytes, a table the set of its keys.                    *)
(***************************************************************************)
\* range.length(), with range.in() = 0
MaxRange == 2

\* samples the graph may render beyond the span it was asked for
MaxExtra == 1

\* samples_to_bytes(1)
SampleSizes == {1, 2}

time_to_bytes(t, sample_size) == t * sample_size

samples_to_bytes(n, sample_size) == n * sample_size

bytes_to_samples(b, sample_size) == b \div sample_size

Min(a, b) == IF a <= b THEN a ELSE b

Max(a, b) == IF a >= b THEN a ELSE b

\* QByteArray::mid(pos, len)
Mid(buf, pos, len) == SubSeq(buf, pos + 1, Min(pos + len, Len(buf)))

\* The stretch loop; i and clip_speed are counted in halves, which the
\* doubles of the loop hold exactly.
RECURSIVE SpeedLoop(_, _, _, _, _)
SpeedLoop(samples, sample_size, speed2, i2, out) ==
    IF i2 < 2 * bytes_to_samples(Len(samples), sample_size)
    THEN LET sample_index == i2 \div 2
             byte_index == samples_to_bytes(sample_index, sample_size)
         IN  SpeedLoop(samples, sample_size, speed2, i2 + speed2,
                       out \o Mid(samples, byte_index, samples_to_bytes(1, sample_size)))
    ELSE out

SpeedAdjust(samples, sample_size, speed2) ==
    SpeedLoop(samples, sample_size, speed2, 0, <<>>)

\* The three memcpy of one swap; src and dst are whole samples, either
\* apart or the same one.
SwapSample(buf, src_index, dst_index, sample_size) ==
    [p \in 1..Len(buf) |->
        IF p > dst_index /\ p <= dst_index + sample_size
        THEN buf[src_index + (p - dst_index)]
        ELSE IF p > src_index /\ p <= src_index + sample_size
        THEN buf[dst_index + (p - src_index)]
        ELSE buf[p]]

RECURSIVE ReverseLoop(_, _, _, _)
ReverseLoop(buf, sample_size, src_index, half_buffer_sz) ==
    IF src_index < half_buffer_sz
    THEN ReverseLoop(SwapSample(buf, src_index,
                                Len(buf) - sample_size - src_index, sample_size),
                     sample_size, src_index + sample_size, half_buffer_sz)
    ELSE buf

\* Reversal of the bytes, not of the samples.
ReverseSamples_Bytewise(buf, sample_size) ==
    [p \in 1..Len(buf) |-> buf[Len(buf) + 1 - p]]

ReverseSamples(buf, sample_size) ==
    ReverseLoop(buf, sample_size, 0, Len(buf) \div 2)

\* A memcpy that copies nothing.
WriteBytes_Nothing(buffer, offset, src) == buffer

\* memcpy(buffer + offset, src, Len(src)), the part of it inside the buffer
WriteBytes(buffer, offset, src) ==
    [p \in 1..Len(buffer) |->
        IF p > offset /\ p <= offset + Len(src) THEN src[p - offset] ELSE buffer[p]]

\* NodeValueTable::Merge: the union of the tables
Merge(tables) == UNION tables

\* One pass of the loop over the active blocks.  blocks records, for each
\* block, the buffer before and after the reversal and the span it was given.
RenderOneBlock(acc, b, sample_size) ==
    LET range_for_block == <<Max(b.in, 0), Min(b.out, MaxRange)>>
        table == b.keys \cup {"samples"}
        taken == table \ {"samples"}
        destination_offset == time_to_bytes(range_for_block[1] - 0, sample_size)
        maximum_copy_size ==
            time_to_bytes(range_for_block[2] - range_for_block[1], sample_size)
        adjusted == IF b.samples # <<>> /\ b.speed2 # 2
                    THEN SpeedAdjust(b.samples, sample_size, b.speed2)
                    ELSE b.samples
        final == IF b.samples # <<>> /\ b.reversed
                 THEN ReverseSamples(adjusted, sample_size)
                 ELSE adjusted
        copied_size == IF b.samples # <<>> THEN Len(final) ELSE 0
        copied == WriteBytes(acc.buffer, destination_offset, SubSeq(final, 1, copied_size))
        filled == IF copied_size < maximum_copy_size
                  THEN WriteBytes(copied, destination_offset + copied_size,
                                  [p \in 1..(maximum_copy_size - copied_size) |-> 0])
                  ELSE copied
        discarded == Merge({acc.merged_table, taken})
    IN  [buffer |-> filled,
         merged_table |-> acc.merged_table,
         overrun |-> acc.overrun \/ destination_offset + copied_size > Len(acc.buffer),
         blocks |-> Append(acc.blocks,
                           [adjusted |-> adjusted, final |-> final,
                            destination_offset |-> destination_offset,
                            maximum_copy_size |-> maximum_copy_size,
                            copied_size |-> copied_size])]

RECURSIVE RenderLoop(_, _, _)
RenderLoop(acc, active_blocks, sample_size) ==
    IF active_blocks = <<>> THEN acc
    ELSE RenderLoop(RenderOneBlock(acc, Head(active_blocks), sample_size),
                    Tail(active_blocks), sample_size)

\* The bytes of the k-th block's n samples, all different and none zero.
SampleBytes(k, n, sample_size) ==
    [p \in 1..samples_to_bytes(n, sample_size) |-> 100 * k + p]

\* The blocks a track can return for the range: their in and out points,
\* speed (in halves), reversal and what the graph renders for them.
BlocksAt(k, sample_size) ==
    {[in |-> i, out |-> o, speed2 |-> speed2, reversed |-> reversed,
      samples |-> SampleBytes(k, n, sample_size), keys |-> {<<"key", k>>}] :
        i \in (-1)..(MaxRange - 1), o \in 1..(MaxRange + 1),
        speed2 \in {1, 2, 4}, reversed \in BOOLEAN, n \in 0..(MaxRange + MaxExtra)}

\* The span of the range a block is asked for fits what it renders, up to
\* MaxExtra samples.
Renders(x, sample_size) ==
    /\ x.in < x.out
    /\ Len(x.samples) <= samples_to_bytes(
          Min(x.out, MaxRange) - Max(x.in, 0) + MaxExtra, sample_size)

\* No block, one block, or two blocks one after the other.
Tracks(sample_size) ==
    {<<>>}
    \cup {<<b>> : b \in {x \in BlocksAt(1, sample_size) : Renders(x, sample_size)}}
    \cup {t \in {<<b1, b2>> :
                    b1 \in {x \in BlocksAt(1, sample_size) : Renders(x, sample_size)},
                    b2 \in {x \in BlocksAt(2, sample_size) : Renders(x, sample_size)}} :
             t[1].out <= t[2].in}

AudioIdle == [phase |-> "idle"]

\* A memcpy that leaves the output buffer writes into the heap behind it:
\* the call either returns, with the buffer as the writes inside it left it,
\* or the process dies.
RenderBlock ==
    /\ rendered.phase = "call"
    /\ LET sample_size == rendered.sample_size
           block_range_buffer ==
               [p \in 1..time_to_bytes(MaxRange, sample_size) |-> 0]
           done == RenderLoop([buffer |-> block_range_buffer, merged_table |-> {},
                               overrun |-> FALSE, blocks |-> <<>>],
                              rendered.track, sample_size)
       IN  \/ rendered' = [phase |-> "return",
                           sample_size |-> sample_size,
                           track |-> rendered.track,
                           buffer |-> done.buffer,
                           table |-> done.merged_table \cup {"samples"},
                           overrun |-> done.overrun,
                           blocks |-> done.blocks]
           \/ /\ done.overrun
              /\ rendered' = [phase |-> "crash",
                              sample_size |-> sample_size,
                              track |-> rendered.track]
    /\ UNCHANGED <<started_, width_, height_, format_, mode_, divider_,
                   effective_width_, effective_height_, caching_, cache_queue_,
                   cache_frame_, cache_name_, cache_time_, cache_id_, timebase_,
                   threads_, download_threads_, master_thread_,
                   last_download_thread_, master_texture_,
                   cache_frame_load_buffer_, connected, events, files,
                   crashed, last_>>

(***************************************************************************)
(* The scheduler: invalidation, dispatch, completion, start/stop and       *)
(* parameter changes, on the frames of the 1/24 grid.                      *)
(***************************************************************************)
Widths == {2}

Heights == {2}

Formats == {0}

Modes == {0}

Dividers == {1, 2}

Names == {<<>>, <<"a">>}

\* The constructor initialises started_, width_, height_, divider_ and
\* caching_; the effective dimensions and the format hold whatever the
\* memory held.
Init ==
    /\ started_ = FALSE
    /\ width_ = 0
    /\ height_ = 0
    /\ divider_ = 1
    /\ caching_ = FALSE
    /\ format_ \in Formats
    /\ mode_ \in Modes
    /\ effective_width_ \in {0, 1}
    /\ effective_height_ \in {0, 1}
    /\ cache_queue_ = <<>>
    /\ cache_frame_ = NullRational
    /\ cache_name_ = <<>>
    /\ cache_time_ = 0
    /\ cache_id_ = <<>>
    /\ timebase_ = NullRational
    /\ threads_ = <<>>
    /\ download_threads_ = <<>>
    /\ master_thread_ = NullThread
    /\ last_download_thread_ = 0
    /\ master_texture_ = "null"
    /\ cache_frame_load_buffer_ = "empty"
    /\ connected = FALSE
    /\ events = <<>>
    /\ files = {}
    /\ crashed = FALSE
    /\ last_ = Other
    /\ rendered = AudioIdle

Next ==
    \/ \E timebase \in Timebases : SetTimebase(timebase)
    \/ \E start_range \in Frames, end_range \in Frames :
          InvalidateCache(start_range, end_range)
    \/ \E width \in Widths, height \in Heights, format \in Formats,
          mode \in Modes, divider \in {0} \cup Dividers :
          SetParameters(width, height, format, mode, divider)
    \/ \E divider \in Dividers : SetDivider(divider)
    \/ Start
    \/ Stop
    \/ ThreadCallback(FALSE)
    \/ \E i \in 1..PoolSize : WorkerFinish(i)
    \/ ConnectInput
    \/ DisconnectInput

Spec == Init /\ [][Next]_vars

(***************************************************************************)
(* The snapping of InvalidateCache: a renderer with its timebase set, and  *)
(* ranges on and off the grid.  The render parameters are not read here.   *)
(***************************************************************************)
InitSnap ==
    /\ started_ = FALSE
    /\ width_ = 0
    /\ height_ = 0
    /\ divider_ = 1
    /\ caching_ = FALSE
    /\ format_ = 0
    /\ mode_ = 0
    /\ effective_width_ = 0
    /\ effective_height_ = 0
    /\ cache_queue_ = <<>>
    /\ cache_frame_ = NullRational
    /\ cache_name_ = <<>>
    /\ cache_time_ = 0
    /\ cache_id_ = <<>>
    /\ timebase_ \in SnapTimebases
    /\ threads_ = <<>>
    /\ download_threads_ = <<>>
    /\ master_thread_ = NullThread
    /\ last_download_thread_ = 0
    /\ master_texture_ = "null"
    /\ cache_frame_load_buffer_ = "empty"
    /\ connected \in BOOLEAN
    /\ events = <<>>
    /\ files = {}
    /\ crashed = FALSE
    /\ last_ = Other
    /\ rendered = AudioIdle

NextSnap ==
    \/ \E start_range \in SnapTimes, end_range \in SnapTimes :
          InvalidateCache(start_range, end_range)
    \/ ThreadCallback(FALSE)
    \/ \E i \in 1..PoolSize : WorkerFinish(i)

SpecSnap == InitSnap /\ [][NextSnap]_vars

(***************************************************************************)
(* The read path: a renderer whose parameters, cache name and timebase     *)
(* have been set (or not), rendering, downloading and serving frames.      *)
(***************************************************************************)
InitRead ==
    /\ started_ = FALSE
    /\ width_ \in Widths
    /\ height_ \in Heights
    /\ divider_ = 1
    /\ caching_ = FALSE
    /\ format_ \in Formats
    /\ mode_ \in Modes
    /\ effective_width_ = width_
    /\ effective_height_ = height_
    /\ cache_queue_ = <<>>
    /\ cache_frame_ = NullRational
    /\ cache_name_ \in Names
    /\ cache_time_ = 0
    /\ cache_id_ = GenerateCacheIDInternal(
                      [cache_name_ |-> cache_name_, cache_time_ |-> cache_time_,
                       width_ |-> width_, height_ |-> height_, format_ |-> format_,
                       divider_ |-> divider_, effective_width_ |-> effective_width_,
                       effective_height_ |-> effective_height_,
                       cache_id_ |-> <<>>]).cache_id_
    /\ timebase_ \in {NullRational} \cup Timebases
    /\ threads_ = <<>>
    /\ download_threads_ = <<>>
    /\ master_thread_ = NullThread
    /\ last_download_thread_ = 0
    /\ master_texture_ = "null"
    /\ cache_frame_load_buffer_ = "empty"
    /\ connected \in BOOLEAN
    /\ events = <<>>
    /\ files = {}
    /\ crashed = FALSE
    /\ last_ = Other
    /\ rendered = AudioIdle

NextRead ==
    \/ \E output \in {"tex_out", "other"}, time \in Frames, opened \in BOOLEAN :
          Value(output, time, opened)
    \/ \E start_range \in Frames, end_range \in Frames :
          InvalidateCache(start_range, end_range)
    \/ \E texture \in BOOLEAN : ThreadCallback(texture)
    \/ \E i \in 1..PoolSize : WorkerFinish(i)
    \/ \E i \in 1..PoolSize : DownloadFinish(i)
    \/ Start
    \/ Stop

SpecRead == InitRead /\ [][NextRead]_vars

(***************************************************************************)
(* Completions: a renderer with parameters, cache name and timebase set,   *)
(* rendering frames whose textures are downloaded or found empty, while    *)
(* the input is connected and disconnected and the pipeline is stopped.    *)
(***************************************************************************)
InitPool ==
    /\ InitRead
    /\ cache_name_ # <<>>
    /\ ~isNull(timebase_)
    /\ connected

NextPool ==
    \/ \E start_range \in Frames, end_range \in Frames :
          InvalidateCache(start_range, end_range)
    \/ \E texture \in BOOLEAN : ThreadCallback(texture)
    \/ \E i \in 1..PoolSize : WorkerFinish(i)
    \/ \E i \in 1..PoolSize : DownloadFinish(i)
    \/ Start
    \/ Stop
    \/ ConnectInput
    \/ DisconnectInput

SpecPool == InitPool /\ [][NextPool]_vars

(***************************************************************************)
(* The cache identity: names, clock readings and render parameters.        *)
(***************************************************************************)
IdNames == {<<>>, <<"a">>}

IdWidths == {0, 1, 12}

IdHeights == {0, 3, 23}

IdFormats == {0, 1}

IdDividers == {0, 1, 2}

NextId ==
    \/ \E name \in IdNames, now \in 0..MaxClock : SetCacheName(name, now)
    \/ \E width \in IdWidths, height \in IdHeights, format \in IdFormats,
          mode \in Modes, divider \in IdDividers :
          SetParameters(width, height, format, mode, divider)
    \/ \E divider \in IdDividers : SetDivider(divider)
    \/ Start
    \/ Stop

SpecId == Init /\ [][NextId]_vars

(***************************************************************************)
(* The audio renderer: one call of RenderBlock on every track of the model. *)
(***************************************************************************)
InitAudio ==
    /\ started_ = FALSE
    /\ width_ = 0
    /\ height_ = 0
    /\ divider_ = 1
    /\ caching_ = FALSE
    /\ format_ = 0
    /\ mode_ = 0
    /\ effective_width_ = 0
    /\ effective_height_ = 0
    /\ cache_queue_ = <<>>
    /\ cache_frame_ = NullRational
    /\ cache_name_ = <<>>
    /\ cache_time_ = 0
    /\ cache_id_ = <<>>
    /\ timebase_ = NullRational
    /\ threads_ = <<>>
    /\ download_threads_ = <<>>
    /\ master_thread_ = NullThread
    /\ last_download_thread_ = 0
    /\ master_texture_ = "null"
    /\ cache_frame_load_buffer_ = "empty"
    /\ connected = FALSE
    /\ events = <<>>
    /\ files = {}
    /\ crashed = FALSE
    /\ last_ = Other
    /\ rendered \in UNION {{[phase |-> "call", sample_size |-> sample_size,
                                track |-> track] : track \in Tracks(sample_size)} :
                              sample_size \in SampleSizes}

NextAudio == RenderBlock

SpecAudio == InitAudio /\ [][NextAudio]_vars

(***************************************************************************)
(* Properties.                                                             *)
(***************************************************************************)
MasterQueue == IF threads_ = <<>> THEN <<>> ELSE threads_[1].queue

RECURSIVE QueuedRenders(_)
QueuedRenders(pool) ==
    IF pool = <<>> THEN 0 ELSE Len(Head(pool).queue) + QueuedRenders(Tail(pool))

\* Primary renders queued on a worker or completed with the signal pending.
PrimaryInFlight == QueuedRenders(threads_) + Len(events)

IsPrefix(p, q) == Len(p) <= Len(q) /\ SubSeq(q, 1, Len(p)) = p

NoDuplicates(q) == \A i, j \in 1..Len(q) : q[i] = q[j] => i = j

\* C1: at most one primary render is in flight: on a worker's queue or
\* completed and not yet processed by the scheduler; and one is in flight
\* only while caching_ is set.
C1_AtMostOnePrimary ==
    /\ PrimaryInFlight <= 1
    /\ PrimaryInFlight = 1 => caching_

\* An invalidation has arrived between a completion and its processing: a
\* frame waits in the queue and no second render was queued.
C1_Witness ==
    /\ last_[1] = "InvalidateCache"
    /\ events # <<>>
    /\ cache_queue_ # <<>>
    /\ caching_

\* C2: frames are dispatched in the order of their enqueueing: a step that
\* queues a render on the master worker takes the frame at the head of the
\* queue, what the same step appended follows what was pending, in ascending
\* order; any other step leaves the pending frames and their order as they
\* were and appends at the tail.
C2_FifoDispatch ==
    [][IF Len(MasterQueue') > Len(MasterQueue)
       THEN LET full == <<cache_frame_'>> \o cache_queue_'
            IN  /\ IsPrefix(cache_queue_, full)
                /\ MasterQueue' = Append(MasterQueue, cache_frame_')
                /\ \A i, j \in (Len(cache_queue_) + 1)..Len(full) :
                      i < j => RLess(full[i], full[j])
       ELSE IsPrefix(cache_queue_, cache_queue_')]_vars

\* A completion has dispatched a frame that was enqueued before, and is
\* later in time than, a frame that is still pending.
C2_Witness ==
    /\ last_[1] = "ThreadCallback"
    /\ cache_queue_ # <<>>
    /\ MasterQueue = <<cache_frame_>>
    /\ RLess(Head(cache_queue_), cache_frame_)

\* C3: the invalidation queue never holds a timestamp twice.
C3_NoDuplicateInQueue == NoDuplicates(cache_queue_)

\* InvalidateCache(0, 1/24) has met 1/24 already pending: 0 was appended
\* behind it and 1/24 was not appended again.
C3_Witness ==
    /\ last_ = <<"InvalidateCache", rational(0, 1), rational(1, 24)>>
    /\ cache_queue_ = <<rational(1, 24), rational(0, 1)>>

\* The step is a call InvalidateCache(start_range, end_range).
InvalidateStep(start_range, end_range) ==
    /\ last_'[1] = "InvalidateCache"
    /\ last_'[2] = start_range
    /\ last_'[3] = end_range

\* The queue after the step, with the frame the step dispatched put back.
QueueBeforeDispatch ==
    IF Len(MasterQueue') > Len(MasterQueue)
    THEN <<cache_frame_'>> \o cache_queue_'
    ELSE cache_queue_'

\* The grid points floor(start/t)*t, +t, ... <= end in exact arithmetic that
\* are not in the queue, ascending.
ExactGrid(queue, start_range, end_range, timebase) ==
    LET k0  == (numerator(start_range) * denominator(timebase))
                  \div (denominator(start_range) * numerator(timebase))
        pts == [j \in 1..(MaxSnap + 2) |->
                   rational((k0 + j - 1) * numerator(timebase), denominator(timebase))]
    IN  SelectSeq(pts, LAMBDA g : /\ RLeq(g, end_range)
                                  /\ \A i \in 1..Len(queue) : queue[i] # g)

\* C4: InvalidateCache(start, end), start <= end, with a positive timebase
\* appends exactly the grid points floor(start/t)*t, +t, ... <= end that are
\* not queued, in ascending order.
C4_ExactGridAppended ==
    [][\A start_range \in SnapTimes, end_range \in SnapTimes :
          (InvalidateStep(start_range, end_range) /\ RLeq(start_range, end_range))
          => QueueBeforeDispatch =
                cache_queue_ \o ExactGrid(cache_queue_, start_range, end_range, timebase_)]_vars

\* C5: a Stop taken while a primary render is in flight leaves the scheduler
\* able to resume: once started again with frames queued and the input
\* connected, it is not left with caching_ set and no render in flight, the
\* state in which CacheNext returns at once for ever.
C5_ResumesAfterRestart ==
    (started_ /\ connected /\ cache_queue_ # <<>> /\ caching_) => PrimaryInFlight = 1

\* The state C5 excludes is absorbing: with caching_ set and no render in
\* flight no handler queues a render or clears the flag.
WedgedStays ==
    [][(caching_ /\ PrimaryInFlight = 0) => (caching_' /\ PrimaryInFlight' = 0)]_vars

\* C6: a completion processed while the pipeline is stopped commits nothing:
\* no texture goes to a download worker, no cache file is deleted, and the
\* pipeline is not started for a next render.
C6_NoCommitAfterStop ==
    [][(last_'[1] = "ThreadCallback" /\ ~started_)
       => /\ files' = files
          /\ download_threads_' = download_threads_
          /\ threads_' = threads_
          /\ ~started_'
          /\ ~crashed']_vars

\* C7: a call of SetParameters or SetDivider that changes width, height,
\* format or divider with a cache name set, and leaves non-zero effective
\* dimensions, leaves a cache identity different from the one before.
C7_IdentityChanges ==
    [][(/\ <<width_, height_, format_, divider_>>' # <<width_, height_, format_, divider_>>
        /\ cache_name_ # <<>>
        /\ effective_width_' # 0 /\ effective_height_' # 0
        /\ ~crashed')
       => cache_id_' # cache_id_]_vars

\* C8: whenever the cache name is empty or an effective dimension is zero,
\* the cache identity is the empty one.
C8_EmptyIdentityWhenDisabled ==
    (cache_name_ = <<>> \/ effective_width_ = 0 \/ effective_height_ = 0)
       => cache_id_ = <<>>

\* C9: a call of Value leaves the queue, the caching flag, the in-flight
\* timestamp, the started flag, the workers' queues and the pending
\* completions as they were.
C9_ValueLeavesScheduler ==
    [][last_'[1] = "Value"
       => UNCHANGED <<cache_queue_, caching_, cache_frame_, started_, threads_, events>>]_vars

\* A cache hit was served while a render was in flight and frames waited.
C9_Witness ==
    /\ last_ = <<"Value", "master_texture">>
    /\ caching_
    /\ cache_queue_ # <<>>

\* C10 as stated: with timebase 1/24 and an empty queue,
\* InvalidateCache(0.03, 0.09) enqueues exactly {0, 1/24}.
C10_EnqueuesTwoFrames ==
    [][(/\ InvalidateStep(rational(3, 100), rational(9, 100))
        /\ timebase_ = rational(1, 24)
        /\ cache_queue_ = <<>>)
       => {QueueBeforeDispatch[i] : i \in 1..Len(QueueBeforeDispatch)}
             = {rational(0, 1), rational(1, 24)}]_vars

\* C10 amended: with timebase 1/24 and an empty queue,
\* InvalidateCache(0.03, 0.09) enqueues exactly 0, 1/24 and 2/24, in this
\* order (2/24 = 0.0833 is below 0.09).
C10_EnqueuesThreeFrames ==
    [][(/\ InvalidateStep(rational(3, 100), rational(9, 100))
        /\ timebase_ = rational(1, 24)
        /\ cache_queue_ = <<>>)
       => QueueBeforeDispatch = <<rational(0, 1), rational(1, 24), rational(2, 24)>>]_vars

\* InvalidateCache(0.03, 0.09) has run on an idle, connected renderer with
\* timebase 1/24: frame 0 is dispatched, 1/24 and 2/24 wait.
C10_Witness ==
    /\ last_ = <<"InvalidateCache", rational(3, 100), rational(9, 100)>>
    /\ timebase_ = rational(1, 24)
    /\ cache_frame_ = rational(0, 1)
    /\ MasterQueue = <<rational(0, 1)>>
    /\ cache_queue_ = <<rational(1, 24), rational(2, 24)>>

\* C11: the table RenderBlock returns holds the non-audio keys of every
\* block's rendered table, and the samples key.
C11_TableIsUnion ==
    rendered.phase = "return"
       => /\ "samples" \in rendered.table
          /\ \A k \in 1..Len(rendered.track) : rendered.track[k].keys \subseteq rendered.table

C13_ReversalIsInvolutive ==
    rendered.phase = "return"
       => \A k \in 1..Len(rendered.track) :
             LET sample_size == rendered.sample_size
                 input == rendered.blocks[k].adjusted
                 output == rendered.blocks[k].final
                 N == bytes_to_samples(Len(input), sample_size)
             IN  (rendered.track[k].reversed /\ rendered.track[k].samples # <<>>)
                    => /\ Len(output) = Len(input)
                       /\ \A i \in 0..(N - 1), c \in 1..sample_size :
                             output[i * sample_size + c]
                                = input[(N - 1 - i) * sample_size + c]
                       /\ ReverseSamples(output, sample_size) = input

\* A reversed block of three two-byte samples has been rendered: the middle
\* sample is swapped with itself.
C13_Witness ==
    /\ rendered.phase = "return"
    /\ rendered.sample_size = 2
    /\ \E k \in 1..Len(rendered.track) :
          /\ rendered.track[k].reversed
          /\ Len(rendered.blocks[k].adjusted) = 6
          /\ rendered.blocks[k].final[1] = rendered.blocks[k].adjusted[5]

\* C18: every byte RenderBlock writes for a block lies inside the block's
\* span of the output buffer: the call does not die of a write outside the
\* buffer, and no block copies more than maximum_copy_size bytes.
C18_WritesStayInSpan ==
    /\ rendered.phase # "crash"
    /\ rendered.phase = "return"
          => /\ ~rendered.overrun
             /\ \A k \in 1..Len(rendered.blocks) :
                   rendered.blocks[k].copied_size <= rendered.blocks[k].maximum_copy_size

\* The k-th download worker's queue has grown by the path fn and the others
\* are as they were.
DispatchedTo(k, fn) ==
    /\ Len(download_threads_') = Len(download_threads_)
    /\ k \in 1..Len(download_threads_)
    /\ \A i \in 1..Len(download_threads_) :
          download_threads_'[i] = IF i = k THEN Append(download_threads_[i], fn)
                                          ELSE download_threads_[i]

\* The head of the invalidation queue has been queued on the master worker.
NextDispatched ==
    /\ caching_'
    /\ cache_frame_' = Head(cache_queue_)
    /\ cache_queue_' = Tail(cache_queue_)
    /\ MasterQueue' = Append(MasterQueue, Head(cache_queue_))

\* What C14 says of the download, the cache file and the caching flag when
\* the master's completion for cache_frame_ is processed; advance tells
\* whether the next queued timestamp is to be dispatched.
CompletionHandled(advance) ==
    LET fn == CachePathName(State, cache_frame_)
    IN  /\ ~crashed'
        /\ IF last_'[2]
           THEN (\E k \in 1..Len(download_threads_) : DispatchedTo(k, fn))
                   /\ files' = files
           ELSE download_threads_' = download_threads_ /\ files' = files \ {fn}
        /\ IF advance
           THEN NextDispatched
           ELSE ~caching_' /\ threads_' = threads_ /\ cache_queue_' = cache_queue_

C15_RoundRobin ==
    [][IF /\ Len(download_threads_') = Len(download_threads_)
          /\ QueuedDownloads(download_threads_') > QueuedDownloads(download_threads_)
       THEN /\ Len(download_threads_) = PoolSize
            /\ \E fn \in {CachePathName(State, cache_frame_)} :
                  DispatchedTo((last_download_thread_ % PoolSize) + 1, fn)
            /\ last_download_thread_' = last_download_thread_ + 1
       ELSE \/ last_download_thread_' = last_download_thread_
            \/ ~started_ /\ started_' /\ last_download_thread_' = 0]_vars

\* The texture after PoolSize others has gone to the first download worker
\* again.
C15_Witness ==
    /\ last_ = <<"ThreadCallback", TRUE>>
    /\ last_download_thread_ = PoolSize + 1
    /\ download_threads_ # <<>>
    /\ Len(download_threads_[1]) = 1

\* C16: a call of Value that finds the cache file of its timestamp does not
\* meet a released master texture or readback buffer.
C16_HitFindsMasterTexture ==
    [][last_'[1] = "Value" => ~crashed']_vars

\* C17: a call that changes width, height or divider leaves a divider of at
\* least 1 and effective dimensions width / divider and height / divider.
C17_DividerPositive ==
    [][<<width_, height_, divider_>>' # <<width_, height_, divider_>>
       => /\ ~crashed'
          /\ divider_' >= 1
          /\ effective_width_' = width_' \div divider_'
          /\ effective_height_' = height_' \div divider_']_vars

\* C19: every call of InvalidateCache returns.
C19_InvalidateCacheTerminates ==
    [][last_'[1] = "InvalidateCache" => ~crashed']_vars

====
